---------------------------- MODULE Spec2Model ----------------------------
(***************************************************************************)
(* A model of intercreate/artifact-eviction-action: the pure eviction      *)
(* engine of src/src/lib.ts and the run of src/src/index.ts (main,         *)
(* parseConfig, fetchAllArtifacts, performCleanup, deleteArtifacts).       *)
(*                                                                         *)
(* Two specifications:                                                     *)
(*   Spec     one run of the action, from parseConfig to process exit;     *)
(*   LibSpec  direct calls of the exported functions of lib.ts on          *)
(*            arbitrary arguments (the way the unit tests call them).      *)
(*                                                                         *)
(* Numbers.  Byte counts are integers.  maxSizeBytes is the real number    *)
(* maxSizeGB * 1024 ** 3; the model holds maxSizeGB and maxSizeBytes as    *)
(* integers counting 1/LimitDen bytes, so a positive limit below one byte  *)
(* is a value of the model and every comparison of an integer byte count   *)
(* with the limit is exact.                                                *)
(*                                                                         *)
(* Timestamps.  created_at is <<>> for null and <<t>> for a date string    *)
(* denoting the instant t (milliseconds since the epoch, negative before   *)
(* it); the API's created_at is a date-time string or null.                *)
(***************************************************************************)
EXTENDS Integers, Sequences, FiniteSets

\* Bounds of the model.
MaxArtifacts == 3
MaxSize == 1
MaxLimit == 3
LimitDen == 2

(***************************************************************************)
(* Data                                                                    *)
(***************************************************************************)

NullTime == <<>>

\* null, an instant before the epoch and one after it: null sorts as the
\* epoch exactly when it sorts between the two.
CreatedAtValues == {NullTime, <<-1>>, <<1>>}

SizeValues == 0..MaxSize

\* The artifact arrays of n artifacts.  Ids are unique within a repository;
\* no function of the program orders by id, so the artifacts are labelled in
\* listing order.
ArtifactArraysOfLen(n) ==
    { [i \in 1..n |-> [id |-> i, size_in_bytes |-> s[i], created_at |-> c[i]]] :
        s \in [1..n -> SizeValues], c \in [1..n -> CreatedAtValues] }

ArtifactArrays == UNION { ArtifactArraysOfLen(n) : n \in 0..MaxArtifacts }

\* The values of maxSizeBytes of the model, in 1/LimitDen bytes.
LimitValues == 0..MaxLimit

Range(s) == { s[i] : i \in DOMAIN s }

Ids(s) == { s[i].id : i \in DOMAIN s }

(***************************************************************************)
(* src/src/lib.ts                                                          *)
(***************************************************************************)

RECURSIVE calculateTotalSize(_)
calculateTotalSize(artifacts) ==
    IF artifacts = <<>> THEN 0
    ELSE calculateTotalSize(SubSeq(artifacts, 1, Len(artifacts) - 1))
           + artifacts[Len(artifacts)].size_in_bytes

calculateStats(artifacts) ==
    [totalCount |-> Len(artifacts), totalSizeBytes |-> calculateTotalSize(artifacts)]

\* isOverLimit with >= for >.
isOverLimitAtLimit(sizeBytes, maxSizeBytes) == sizeBytes * LimitDen >= maxSizeBytes

\* sizeBytes > maxSizeBytes, maxSizeBytes counted in 1/LimitDen bytes.
isOverLimit(sizeBytes, maxSizeBytes) == sizeBytes * LimitDen > maxSizeBytes

\* new Date(created_at ?? 0).getTime()
getTime(created_at) == IF created_at = NullTime THEN 0 ELSE created_at[1]

\* The comparator handed to Array.prototype.sort.
compareCreated(a, b) == getTime(a.created_at) - getTime(b.created_at)

\* An insertion that puts an element before its equals.
RECURSIVE InsertSortedBeforeEquals(_, _)
InsertSortedBeforeEquals(sorted, a) ==
    IF sorted = <<>> THEN <<a>>
    ELSE IF compareCreated(Head(sorted), a) < 0
         THEN <<Head(sorted)>> \o InsertSortedBeforeEquals(Tail(sorted), a)
         ELSE <<a>> \o sorted

\* Array.prototype.sort is stable: an element goes after every element that
\* does not compare greater than it.
RECURSIVE InsertSorted(_, _)
InsertSorted(sorted, a) ==
    IF sorted = <<>> THEN <<a>>
    ELSE IF compareCreated(Head(sorted), a) <= 0
         THEN <<Head(sorted)>> \o InsertSorted(Tail(sorted), a)
         ELSE <<a>> \o sorted

RECURSIVE ArraySort(_)
ArraySort(arr) ==
    IF arr = <<>> THEN <<>>
    ELSE InsertSorted(ArraySort(SubSeq(arr, 1, Len(arr) - 1)), arr[Len(arr)])

\* A call of sortByCreatedDate: the array the caller passed, as it is after
\* the call, and the array returned.  sort() sorts in place; the code sorts
\* the copy [...artifacts].
sortByCreatedDateNoCopy(artifacts) ==
    [arg |-> ArraySort(artifacts), result |-> ArraySort(artifacts)]

sortByCreatedDateCall(artifacts) ==
    [arg |-> artifacts, result |-> ArraySort(artifacts)]

sortByCreatedDate(artifacts) == sortByCreatedDateCall(artifacts).result

\* The loop stopping only once the remaining size is below the limit.
RECURSIVE SelectLoopStrict(_, _, _, _)
SelectLoopStrict(sorted, toDelete, remainingSize, maxSize) ==
    IF sorted = <<>> THEN toDelete
    ELSE IF remainingSize * LimitDen < maxSize THEN toDelete
    ELSE SelectLoopStrict(Tail(sorted), Append(toDelete, Head(sorted)),
                          remainingSize - Head(sorted).size_in_bytes, maxSize)

\* The loop testing the limit against the size left without the next
\* artifact, before it takes it.
RECURSIVE SelectLoopStopEarly(_, _, _, _)
SelectLoopStopEarly(sorted, toDelete, remainingSize, maxSize) ==
    IF sorted = <<>> THEN toDelete
    ELSE IF (remainingSize - Head(sorted).size_in_bytes) * LimitDen <= maxSize
    THEN toDelete
    ELSE SelectLoopStopEarly(Tail(sorted), Append(toDelete, Head(sorted)),
                             remainingSize - Head(sorted).size_in_bytes, maxSize)

\* The for loop of selectArtifactsToDelete.
RECURSIVE SelectLoop(_, _, _, _)
SelectLoop(sorted, toDelete, remainingSize, maxSize) ==
    IF sorted = <<>> THEN toDelete
    ELSE IF remainingSize * LimitDen <= maxSize THEN toDelete
    ELSE SelectLoop(Tail(sorted), Append(toDelete, Head(sorted)),
                    remainingSize - Head(sorted).size_in_bytes, maxSize)

\* selectArtifactsToDelete reading the array's total, not its argument.
selectArtifactsToDeleteOwnTotal(artifacts, currentSize, maxSize) ==
    IF calculateTotalSize(artifacts) * LimitDen <= maxSize THEN <<>>
    ELSE SelectLoop(sortByCreatedDate(artifacts), <<>>,
                    calculateTotalSize(artifacts), maxSize)

selectArtifactsToDelete(artifacts, currentSize, maxSize) ==
    IF currentSize * LimitDen <= maxSize THEN <<>>
    ELSE SelectLoop(sortByCreatedDate(artifacts), <<>>, currentSize, maxSize)

RECURSIVE SumResultSizes(_)
SumResultSizes(results) ==
    IF results = <<>> THEN 0
    ELSE SumResultSizes(SubSeq(results, 1, Len(results) - 1))
           + results[Len(results)].artifact.size_in_bytes

IsSuccess(r) == r.success

IsFailure(r) == ~r.success

\* createCleanupSummary summing the sizes of every result, failed or not.
createCleanupSummaryAllFreed(initial, results, retained) ==
    LET successful == SelectSeq(results, IsSuccess)
        failures == SelectSeq(results, IsFailure)
        freedBytes == SumResultSizes(results)
    IN [initial |-> initial,
        deletedCount |-> Len(successful),
        freedBytes |-> freedBytes,
        finalSizeBytes |-> initial.totalSizeBytes - freedBytes,
        failures |-> failures,
        retained |-> retained]

createCleanupSummary(initial, results, retained) ==
    LET successful == SelectSeq(results, IsSuccess)
        failures == SelectSeq(results, IsFailure)
        freedBytes == SumResultSizes(successful)
    IN [initial |-> initial,
        deletedCount |-> Len(successful),
        freedBytes |-> freedBytes,
        finalSizeBytes |-> initial.totalSizeBytes - freedBytes,
        failures |-> failures,
        retained |-> retained]

(***************************************************************************)
(* src/src/index.ts: configuration                                         *)
(***************************************************************************)

\* A string of the environment is "" when it is unset or empty (both are
\* falsy).  GITHUB_REPOSITORY is held as its "/"-separated parts, <<>> when
\* it is unset or empty.  max_size_gb is <<>> when parseFloat reads no number
\* from it and <<n>> when it reads the number of n/LimitDen bytes, in GB.
TokenCases ==
    { [token |-> "", envToken |-> ""],
      [token |-> "tok", envToken |-> ""],
      [token |-> "", envToken |-> "tok"] }

RepositoryCases ==
    { <<>>, <<"owner">>, <<"", "repo">>, <<"owner", "">>, <<"owner", "repo">> }

MaxSizeCases == {<<>>} \cup { <<n>> : n \in (-1)..MaxLimit }

DryRunCases == {"true", "false"}

InputCases ==
    { [token |-> t.token, envToken |-> t.envToken, repository |-> r,
       max_size_gb |-> m, dry_run |-> d] :
        t \in TokenCases, r \in RepositoryCases, m \in MaxSizeCases,
        d \in DryRunCases }

NoInputs ==
    [token |-> "", envToken |-> "", repository |-> <<>>, max_size_gb |-> <<>>,
     dry_run |-> ""]

ErrNoToken ==
    "No token provided. Set the 'token' input or ensure GITHUB_TOKEN is available."

ErrNoRepository == "GITHUB_REPOSITORY is not set"

ErrRepositoryFormat == "Invalid GITHUB_REPOSITORY format"

ErrMaxSize == "Invalid max_size_gb value"

ErrFetch == "HttpError: list artifacts"

ErrStillOver ==
    "No artifacts to delete, but still over limit. This should not happen."

ErrDelete == "HttpError: delete artifact"

ErrUnexpected == "Unexpected error: job summary"

Ok(v) == [ok |-> TRUE, value |-> <<v>>, error |-> ""]

Err(msg) == [ok |-> FALSE, value |-> <<>>, error |-> msg]

\* parseConfig without the test maxSizeGB <= 0.
parseConfigNoSignCheck(inp) ==
    LET token == IF inp.token # "" THEN inp.token ELSE inp.envToken
        parts == inp.repository
        owner == IF Len(parts) >= 1 THEN parts[1] ELSE ""
        repo == IF Len(parts) >= 2 THEN parts[2] ELSE ""
        maxSizeGB == inp.max_size_gb
    IN IF token = "" THEN Err(ErrNoToken)
       ELSE IF parts = <<>> THEN Err(ErrNoRepository)
       ELSE IF owner = "" \/ repo = "" THEN Err(ErrRepositoryFormat)
       ELSE IF maxSizeGB = <<>> THEN Err(ErrMaxSize)
       ELSE Ok([owner |-> owner, repo |-> repo, maxSizeGB |-> maxSizeGB[1],
                token |-> token, dryRun |-> (inp.dry_run = "true")])

parseConfig(inp) ==
    LET token == IF inp.token # "" THEN inp.token ELSE inp.envToken
        parts == inp.repository
        owner == IF Len(parts) >= 1 THEN parts[1] ELSE ""
        repo == IF Len(parts) >= 2 THEN parts[2] ELSE ""
        maxSizeGB == inp.max_size_gb
    IN IF token = "" THEN Err(ErrNoToken)
       ELSE IF parts = <<>> THEN Err(ErrNoRepository)
       ELSE IF owner = "" \/ repo = "" THEN Err(ErrRepositoryFormat)
       ELSE IF maxSizeGB = <<>> \/ maxSizeGB[1] <= 0 THEN Err(ErrMaxSize)
       ELSE Ok([owner |-> owner, repo |-> repo, maxSizeGB |-> maxSizeGB[1],
                token |-> token, dryRun |-> (inp.dry_run = "true")])

\* config.maxSizeGB * 1024 ** 3, in 1/LimitDen bytes.
maxSizeBytesOf(config) == config.maxSizeGB

(***************************************************************************)
(* src/src/index.ts: the run                                               *)
(***************************************************************************)

VARIABLES
    pc,           \* where main is: "start", "fetching", "deleting", "writing", "done"
    inputs,       \* the action's inputs and environment
    config,       \* <<>>, or <<config>> once parseConfig returned it
    fetchCalls,   \* the calls of octokit.paginate(listArtifactsForRepo)
    artifactsResult, \* <<>>, or <<Result>>: what fetchAllArtifacts returned
    artifacts,    \* the array of artifactsResult, <<>> before it
    toDelete,     \* performCleanup's selection
    results,      \* the promises deleteArtifacts joins, in the order of toDelete
    deleteCalls,  \* the ids octokit.rest.actions.deleteArtifact was called with
    deleted,      \* the ids that the API has deleted from the repository
    cleanup,      \* <<>>, or <<Result>>: what performCleanup returned
    outputs,      \* <<>>, or <<outputs>> once setOutputs ran
    exit,         \* <<>> while the process runs, then <<Result>> of main
    libArtifacts, \* LibSpec: the caller's array
    libInput,     \* LibSpec: the caller's array as it was before the call
    libCall       \* LibSpec: the call made, its arguments and what it returned

runVars ==
    <<pc, inputs, config, fetchCalls, artifactsResult, artifacts, toDelete, results,
      deleteCalls, deleted, cleanup, outputs, exit>>

libVars == <<libArtifacts, libInput, libCall>>

vars == <<runVars, libVars>>

NoCall ==
    [op |-> "none", currentSize |-> 0, maxSize |-> 0, initial |-> calculateStats(<<>>),
     results |-> <<>>, retained |-> <<>>, result |-> <<>>]

RunInit ==
    /\ pc = "start"
    /\ inputs = NoInputs
    /\ config = <<>>
    /\ fetchCalls = 0
    /\ artifactsResult = <<>>
    /\ artifacts = <<>>
    /\ toDelete = <<>>
    /\ results = <<>>
    /\ deleteCalls = <<>>
    /\ deleted = {}
    /\ cleanup = <<>>
    /\ outputs = <<>>
    /\ exit = <<>>

LibIdle ==
    /\ libArtifacts = <<>>
    /\ libInput = <<>>
    /\ libCall = NoCall

Init == RunInit /\ LibIdle

\* A promise deleteArtifact returned: pending on the API's answer, or
\* resolved with a DeletionResult.  error is "" when the result has none.
Pending(artifact) ==
    [artifact |-> artifact, settled |-> FALSE, success |-> FALSE, error |-> ""]

\* What deleteArtifact resolves with when the API call threw `thrown` ("" when
\* it returned, or was not made).
deleteArtifactSwallow(artifact, thrown) ==
    [artifact |-> artifact, settled |-> TRUE, success |-> TRUE, error |-> ""]

deleteArtifactResult(artifact, thrown) ==
    IF thrown = ""
    THEN [artifact |-> artifact, settled |-> TRUE, success |-> TRUE, error |-> ""]
    ELSE [artifact |-> artifact, settled |-> TRUE, success |-> FALSE, error |-> thrown]

\* Whether deleteArtifact reaches the API call.
callsApiAlways(cfg) == TRUE

callsApi(cfg) == ~cfg.dryRun

\* deleteArtifacts: artifacts.map(deleteArtifact) runs each deleteArtifact up to
\* its await, in order: the dry run returns at once, the others wait.
deleteArtifactsStart(cfg, selection) ==
    [i \in 1..Len(selection) |->
        IF callsApi(cfg) THEN Pending(selection[i])
        ELSE deleteArtifactResult(selection[i], "")]

deleteArtifactsCalls(cfg, selection) ==
    IF callsApi(cfg) THEN [i \in 1..Len(selection) |-> selection[i].id] ELSE <<>>

\* const toDeleteIds = new Set(...); artifacts.filter((a) => !toDeleteIds.has(a.id))
IsRetained(a, toDeleteIds) == a.id \notin toDeleteIds

\* performCleanup's retained without the filter.
retainedOfNoFilter(arr, selection) == arr

retainedOf(arr, selection) ==
    LET toDeleteIds == Ids(selection)
        Keep(a) == IsRetained(a, toDeleteIds)
    IN SelectSeq(arr, Keep)

\* The summary performCleanup returns when the total is not over the limit.
underLimitSummary(initialStats, arr) ==
    [initial |-> initialStats,
     deletedCount |-> 0,
     freedBytes |-> 0,
     finalSizeBytes |-> initialStats.totalSizeBytes,
     failures |-> <<>>,
     retained |-> arr]

\* The DeletionResults of the settled promises, as Promise.all resolves with.
resultsOf(promises) ==
    [i \in 1..Len(promises) |->
        [artifact |-> promises[i].artifact, success |-> promises[i].success,
         error |-> promises[i].error]]

setOutputs(summary, wasOverLimit) ==
    [deleted_count |-> summary.deletedCount,
     freed_bytes |-> summary.freedBytes,
     final_size_bytes |-> summary.finalSizeBytes,
     was_over_limit |-> wasOverLimit]

wasOverLimitOf(cfg, arr) ==
    isOverLimit(calculateStats(arr).totalSizeBytes, maxSizeBytesOf(cfg))

OkVoid == [ok |-> TRUE, value |-> <<>>, error |-> ""]

\* performCleanup's test of the selection it got for a total over the limit.
nothingToDeleteNever(selection) == FALSE

nothingToDelete(selection) == Len(selection) = 0

\* main, from its start to its first await: parseConfig, and on a
\* configuration the call of fetchAllArtifacts, which calls the API.
MainStart ==
    /\ pc = "start"
    /\ \E inp \in InputCases :
        LET configResult == parseConfig(inp)
        IN /\ inputs' = inp
           /\ IF ~configResult.ok
              THEN /\ exit' = <<Err(configResult.error)>>
                   /\ pc' = "done"
                   /\ UNCHANGED <<config, fetchCalls>>
              ELSE /\ config' = configResult.value
                   /\ fetchCalls' = fetchCalls + 1
                   /\ pc' = "fetching"
                   /\ UNCHANGED exit
    /\ UNCHANGED <<artifactsResult, artifacts, toDelete, results, deleteCalls, deleted,
                   cleanup, outputs>>
    /\ UNCHANGED libVars

\* octokit.paginate throws: fetchAllArtifacts returns the error and main
\* returns it.
FetchRejects ==
    /\ pc = "fetching"
    /\ artifactsResult' = <<Err(ErrFetch)>>
    /\ exit' = <<Err(ErrFetch)>>
    /\ pc' = "done"
    /\ UNCHANGED <<inputs, config, fetchCalls, artifacts, toDelete, results,
                   deleteCalls, deleted, cleanup, outputs>>
    /\ UNCHANGED libVars

\* octokit.paginate returns the repository's artifacts: main goes on into
\* performCleanup, up to the await of deleteArtifacts (over the limit) or,
\* with the summary of a run under the limit, up to the await of
\* writeJobSummary.
FetchResolves ==
    /\ pc = "fetching"
    /\ \E arr \in ArtifactArrays :
        LET cfg == config[1]
            initialStats == calculateStats(arr)
            maxSizeBytes == maxSizeBytesOf(cfg)
            wasOverLimit == isOverLimit(initialStats.totalSizeBytes, maxSizeBytes)
            selection ==
                selectArtifactsToDelete(arr, initialStats.totalSizeBytes, maxSizeBytes)
            summary == underLimitSummary(initialStats, arr)
        IN /\ artifactsResult' = <<Ok(arr)>>
           /\ artifacts' = arr
           /\ IF ~isOverLimit(initialStats.totalSizeBytes, maxSizeBytes)
              THEN /\ cleanup' = <<Ok(summary)>>
                   /\ outputs' = <<setOutputs(summary, wasOverLimit)>>
                   /\ pc' = "writing"
                   /\ UNCHANGED <<toDelete, results, deleteCalls, exit>>
              ELSE IF nothingToDelete(selection)
              THEN /\ cleanup' = <<Err(ErrStillOver)>>
                   /\ exit' = <<Err(ErrStillOver)>>
                   /\ pc' = "done"
                   /\ UNCHANGED <<toDelete, results, deleteCalls, outputs>>
              ELSE /\ toDelete' = selection
                   /\ results' = deleteArtifactsStart(cfg, selection)
                   /\ deleteCalls' = deleteArtifactsCalls(cfg, selection)
                   /\ pc' = "deleting"
                   /\ UNCHANGED <<cleanup, outputs, exit>>
    /\ UNCHANGED <<inputs, config, fetchCalls, deleted>>
    /\ UNCHANGED libVars

\* The API deletes the artifact of the i-th request and answers: the i-th
\* deleteArtifact returns its success.
DeleteResolves(i) ==
    /\ pc = "deleting"
    /\ ~results[i].settled
    /\ results' = [results EXCEPT ![i] = deleteArtifactResult(@.artifact, "")]
    /\ deleted' = deleted \cup {results[i].artifact.id}
    /\ UNCHANGED <<pc, inputs, config, fetchCalls, artifactsResult, artifacts, toDelete,
                   deleteCalls, cleanup, outputs, exit>>
    /\ UNCHANGED libVars

\* The i-th request throws: the i-th deleteArtifact catches the error.
DeleteRejects(i) ==
    /\ pc = "deleting"
    /\ ~results[i].settled
    /\ results' = [results EXCEPT ![i] = deleteArtifactResult(@.artifact, ErrDelete)]
    /\ UNCHANGED <<pc, inputs, config, fetchCalls, artifactsResult, artifacts, toDelete,
                   deleteCalls, deleted, cleanup, outputs, exit>>
    /\ UNCHANGED libVars

\* When the promise of Promise.all resolves: once every promise it was given
\* has.
allSettledNoWait(promises) == TRUE

allSettled(promises) == \A i \in DOMAIN promises : promises[i].settled

\* Promise.all resolves once every promise has: performCleanup builds the
\* summary and returns it, main logs it, sets the outputs and awaits
\* writeJobSummary.
DeletionsSettled ==
    /\ pc = "deleting"
    /\ allSettled(results)
    /\ LET retained == retainedOf(artifacts, toDelete)
           summary ==
               createCleanupSummary(calculateStats(artifacts), resultsOf(results),
                                    retained)
       IN /\ cleanup' = <<Ok(summary)>>
          /\ outputs' = <<setOutputs(summary, wasOverLimitOf(config[1], artifacts))>>
    /\ pc' = "writing"
    /\ UNCHANGED <<inputs, config, fetchCalls, artifactsResult, artifacts, toDelete,
                   results, deleteCalls, deleted, exit>>
    /\ UNCHANGED libVars

\* core.summary.write() returns: main returns ok.
SummaryWritten ==
    /\ pc = "writing"
    /\ exit' = <<OkVoid>>
    /\ pc' = "done"
    /\ UNCHANGED <<inputs, config, fetchCalls, artifactsResult, artifacts, toDelete,
                   results, deleteCalls, deleted, cleanup, outputs>>
    /\ UNCHANGED libVars

\* core.summary.write() throws: main rejects and the catch handler fails the
\* run.
SummaryWriteThrows ==
    /\ pc = "writing"
    /\ exit' = <<Err(ErrUnexpected)>>
    /\ pc' = "done"
    /\ UNCHANGED <<inputs, config, fetchCalls, artifactsResult, artifacts, toDelete,
                   results, deleteCalls, deleted, cleanup, outputs>>
    /\ UNCHANGED libVars

Next ==
    \/ MainStart
    \/ FetchRejects
    \/ FetchResolves
    \/ \E i \in 1..MaxArtifacts : i \in DOMAIN results /\ DeleteResolves(i)
    \/ \E i \in 1..MaxArtifacts : i \in DOMAIN results /\ DeleteRejects(i)
    \/ DeletionsSettled
    \/ SummaryWritten
    \/ SummaryWriteThrows

Spec == Init /\ [][Next]_vars

(***************************************************************************)
(* performCleanup on any Config                                            *)
(***************************************************************************)

\* Config.maxSizeGB is a number: the values parseConfig returns and those it
\* refuses, which only a caller that builds the Config itself can pass.
AnyLimitValues == (-1)..MaxLimit

AnyConfig ==
    { [owner |-> "owner", repo |-> "repo", maxSizeGB |-> m, token |-> "token",
       dryRun |-> d] : m \in AnyLimitValues, d \in BOOLEAN }

\* main at its call of performCleanup, holding any Config: the fetch is
\* awaited and what it resolves with is performCleanup's artifacts.
CleanupInit ==
    /\ pc = "fetching"
    /\ inputs = NoInputs
    /\ config \in { <<c>> : c \in AnyConfig }
    /\ fetchCalls = 1
    /\ artifactsResult = <<>>
    /\ artifacts = <<>>
    /\ toDelete = <<>>
    /\ results = <<>>
    /\ deleteCalls = <<>>
    /\ deleted = {}
    /\ cleanup = <<>>
    /\ outputs = <<>>
    /\ exit = <<>>
    /\ LibIdle

CleanupNext ==
    \/ FetchResolves
    \/ \E i \in 1..MaxArtifacts : i \in DOMAIN results /\ DeleteResolves(i)
    \/ \E i \in 1..MaxArtifacts : i \in DOMAIN results /\ DeleteRejects(i)
    \/ DeletionsSettled
    \/ SummaryWritten
    \/ SummaryWriteThrows

CleanupSpec == CleanupInit /\ [][CleanupNext]_vars

(***************************************************************************)
(* Direct calls of the functions of lib.ts                                 *)
(***************************************************************************)

\* The currentSize arguments: the array's total and sizes that are not.
CurrentSizeValues == 0..(MaxArtifacts * MaxSize + 1)

LibInit ==
    /\ RunInit
    /\ libArtifacts \in ArtifactArrays
    /\ libInput = libArtifacts
    /\ libCall = NoCall

\* sortByCreatedDate(libArtifacts)
LibSort ==
    /\ libCall.op = "none"
    /\ LET call == sortByCreatedDateCall(libArtifacts)
       IN /\ libArtifacts' = call.arg
          /\ libCall' = [NoCall EXCEPT !.op = "sort", !.result = call.result]
    /\ UNCHANGED libInput
    /\ UNCHANGED runVars

\* selectArtifactsToDelete(libArtifacts, currentSize, maxSize)
LibSelect ==
    /\ libCall.op = "none"
    /\ \E currentSize \in CurrentSizeValues, maxSize \in LimitValues :
        libCall' = [NoCall EXCEPT !.op = "select",
                                  !.currentSize = currentSize,
                                  !.maxSize = maxSize,
                                  !.result = selectArtifactsToDelete(
                                                 libArtifacts, currentSize, maxSize)]
    /\ libArtifacts' = sortByCreatedDateCall(libArtifacts).arg
    /\ UNCHANGED libInput
    /\ UNCHANGED runVars

\* createCleanupSummary(initial, results, retained): one result per artifact
\* of libArtifacts, any of them failed, any initial total, a retained list.
LibSummary ==
    /\ libCall.op = "none"
    /\ \E total \in 0..MaxArtifacts,
          flags \in [DOMAIN libArtifacts -> BOOLEAN],
          retained \in {<<>>, libArtifacts} :
        LET initial == [totalCount |-> Len(libArtifacts), totalSizeBytes |-> total]
            outcomes ==
                [i \in DOMAIN libArtifacts |->
                    [artifact |-> libArtifacts[i], success |-> flags[i],
                     error |-> IF flags[i] THEN "" ELSE ErrDelete]]
        IN libCall' = [NoCall EXCEPT !.op = "summary",
                                     !.initial = initial,
                                     !.results = outcomes,
                                     !.retained = retained,
                                     !.result = <<createCleanupSummary(
                                                     initial, outcomes, retained)>>]
    /\ UNCHANGED <<libArtifacts, libInput>>
    /\ UNCHANGED runVars

LibNext == LibSort \/ LibSelect \/ LibSummary

LibSpec == LibInit /\ [][LibNext]_vars

(***************************************************************************)
(* Properties                                                              *)
(***************************************************************************)

\* performCleanup returned a summary.
HasSummary == cleanup # <<>> /\ cleanup[1].ok

Summary == cleanup[1].value[1]

\* The settled results, as the summary was built from them.
Outcomes == resultsOf(results)

SucceededIds == { Outcomes[i].artifact.id : i \in { j \in DOMAIN Outcomes : Outcomes[j].success } }

FailedIds == { Outcomes[i].artifact.id : i \in { j \in DOMAIN Outcomes : ~Outcomes[j].success } }

RECURSIVE SumSizesAt(_, _)
SumSizesAt(rs, indices) ==
    IF indices = {} THEN 0
    ELSE LET i == CHOOSE j \in indices : TRUE
         IN rs[i].artifact.size_in_bytes + SumSizesAt(rs, indices \ {i})

\* C1: in every run that produces a summary, whichever deletions succeed or
\* fail, the retained artifacts together with the artifacts of the successful
\* deletion outcomes are exactly the fetched artifacts, and no artifact is
\* both retained and successfully deleted.
C1_RetainedAndDeletedPartitionFetched ==
    HasSummary =>
        /\ Ids(Summary.retained) \cup SucceededIds = Ids(artifacts)
        /\ Ids(Summary.retained) \cap SucceededIds = {}

\* C2: createCleanupSummary(initial, results, retained) counts the successful
\* results in deletedCount, sums their sizes (and no others) in freedBytes,
\* sets finalSizeBytes to initial.totalSizeBytes - freedBytes, lists the
\* failed results in failures in the order they have in results, and returns
\* retained as it was given.
C2_SummaryAccounting ==
    libCall.op = "summary" =>
        LET s == libCall.result[1]
            rs == libCall.results
            ok == { i \in DOMAIN rs : rs[i].success }
            bad == DOMAIN rs \ ok
        IN /\ s.deletedCount = Cardinality(ok)
           /\ s.freedBytes = SumSizesAt(rs, ok)
           /\ s.finalSizeBytes = libCall.initial.totalSizeBytes - SumSizesAt(rs, ok)
           /\ Len(s.failures) = Cardinality(bad)
           /\ \E f \in [DOMAIN s.failures -> bad] :
                /\ \A k \in DOMAIN s.failures : s.failures[k] = rs[f[k]]
                /\ \A k, l \in DOMAIN s.failures : k < l => f[k] < f[l]
           /\ s.retained = libCall.retained
           /\ s.initial = libCall.initial

\* A summary of one success and two failures, of artifacts that have a size.
C2_Witness ==
    /\ libCall.op = "summary"
    /\ libCall.result[1].deletedCount = 1
    /\ Len(libCall.result[1].failures) = 2
    /\ libCall.result[1].freedBytes = 1
    /\ libCall.results[1].artifact.size_in_bytes = 1
    /\ ~libCall.results[1].success
    /\ libCall.retained # <<>>

RECURSIVE SumSizes(_)
SumSizes(arr) == IF arr = <<>> THEN 0 ELSE Head(arr).size_in_bytes + SumSizes(Tail(arr))

\* C3: when currentSize is the total size of the array and is over the limit
\* (sizes and limit not negative), selectArtifactsToDelete returns the
\* shortest sufficient prefix of the oldest-first order: a prefix of
\* sortByCreatedDate(artifacts) that leaves at most the limit, and that
\* without its last artifact leaves more than the limit.
C3_ShortestSufficientPrefix ==
    ( /\ libCall.op = "select"
      /\ libCall.currentSize = SumSizes(libInput)
      /\ libCall.currentSize * LimitDen > libCall.maxSize ) =>
        LET selected == libCall.result
            sorted == sortByCreatedDate(libInput)
            n == Len(selected)
        IN /\ n >= 1
           /\ n <= Len(sorted)
           /\ selected = SubSeq(sorted, 1, n)
           /\ (libCall.currentSize - SumSizes(selected)) * LimitDen <= libCall.maxSize
           /\ (libCall.currentSize - SumSizes(SubSeq(selected, 1, n - 1))) * LimitDen
                > libCall.maxSize

\* A selection of the two oldest of three artifacts, not the first two of the
\* array, that leaves exactly the limit.
C3_Witness ==
    /\ libCall.op = "select"
    /\ Len(libInput) = 3
    /\ libCall.currentSize = SumSizes(libInput)
    /\ libCall.currentSize * LimitDen > libCall.maxSize
    /\ Len(libCall.result) = 2
    /\ libCall.result # SubSeq(libInput, 1, 2)
    /\ (libCall.currentSize - SumSizes(libCall.result)) * LimitDen = libCall.maxSize

\* C4: selectArtifactsToDelete returns the empty array whenever currentSize
\* is at most the limit, the limit itself included, whatever the array holds
\* and whether or not currentSize is its total.
C4_EmptyAtOrUnderLimit ==
    (libCall.op = "select" /\ libCall.currentSize * LimitDen <= libCall.maxSize) =>
        libCall.result = <<>>

\* A call with currentSize equal to the limit and below the array's total.
C4_Witness ==
    /\ libCall.op = "select"
    /\ libCall.currentSize * LimitDen = libCall.maxSize
    /\ libCall.currentSize > 0
    /\ SumSizes(libInput) > libCall.currentSize
    /\ libCall.result = <<>>

Config == config[1]

WasOverLimit == isOverLimit(SumSizes(artifacts), maxSizeBytesOf(Config))

\* C5: in a run that starts over the limit and in which every attempted
\* deletion succeeds, a dry run's included, the summary's finalSizeBytes is
\* at most the configured limit.
C5_UnderLimitWhenAllDeleted ==
    ( /\ HasSummary
      /\ WasOverLimit
      /\ \A i \in DOMAIN Outcomes : Outcomes[i].success ) =>
        Summary.finalSizeBytes * LimitDen <= Config.maxSizeGB

\* A run over the limit that deleted two artifacts, kept one that has a size,
\* and ended ok.
C5_Witness ==
    /\ pc = "done"
    /\ exit[1].ok
    /\ HasSummary
    /\ WasOverLimit
    /\ ~Config.dryRun
    /\ Len(toDelete) = 2
    /\ deleted = Ids(toDelete)
    /\ Summary.finalSizeBytes = 1
    /\ Len(Summary.retained) = 1

\* The i-th delete request was made and threw.
Threw(i) ==
    /\ ~Config.dryRun
    /\ results[i].settled
    /\ results[i].artifact.id \notin deleted

\* C6: a delete call that fails does not abort the batch.  Every selected
\* artifact has exactly one result, the i-th for the i-th selected artifact,
\* whichever requests throw; the result of a request that threw has success
\* false and an error message, and is in the summary's failures; once every
\* request is settled performCleanup returns ok with a summary, and the run
\* fails then only if writing the job summary throws.
C6_FailedDeleteDoesNotAbort ==
    (pc \in {"deleting", "writing", "done"} /\ toDelete # <<>>) =>
        /\ Len(results) = Len(toDelete)
        /\ \A i \in DOMAIN toDelete : results[i].artifact = toDelete[i]
        /\ \A i \in DOMAIN results :
             Threw(i) => /\ ~results[i].success
                         /\ results[i].error # ""
        /\ pc # "deleting" =>
             /\ HasSummary
             /\ \A i \in DOMAIN results : results[i].settled
             /\ \A i \in DOMAIN results :
                  Threw(i) => \E k \in DOMAIN Summary.failures :
                                 Summary.failures[k] = Outcomes[i]
             /\ Len(Summary.failures) + Summary.deletedCount = Len(toDelete)
        /\ pc = "done" => (exit[1].ok \/ exit[1].error = ErrUnexpected)

\* A run that ended ok after the first of three delete requests threw and the
\* two others deleted their artifacts.
C6_Witness ==
    /\ pc = "done"
    /\ exit[1].ok
    /\ Len(toDelete) = 3
    /\ Threw(1)
    /\ deleted = {toDelete[2].id, toDelete[3].id}
    /\ Len(Summary.failures) = 1
    /\ Summary.deletedCount = 2

\* C7: in a dry run the API's delete is never called and nothing is deleted
\* from the repository; every selected artifact's result is a success and the
\* summary has no failures.
C7_DryRunDeletesNothing ==
    (config # <<>> /\ Config.dryRun) =>
        /\ deleteCalls = <<>>
        /\ deleted = {}
        /\ pc \in {"deleting", "writing", "done"} =>
             /\ Len(results) = Len(toDelete)
             /\ \A i \in DOMAIN results : results[i].settled /\ results[i].success
        /\ HasSummary => /\ Summary.failures = <<>>
                         /\ Summary.deletedCount = Len(toDelete)

\* A dry run over the limit that selected two artifacts and ended ok.
C7_Witness ==
    /\ pc = "done"
    /\ exit[1].ok
    /\ Config.dryRun
    /\ WasOverLimit
    /\ Len(toDelete) = 2
    /\ Summary.deletedCount = 2
    /\ outputs # <<>>

\* The instant an artifact sorts by: created_at, and the epoch for null.
EffectiveTime(a) == IF a.created_at = <<>> THEN 0 ELSE a.created_at[1]

\* Where an artifact stands in the array sortByCreatedDate was called with.
InputIndex(a) == CHOOSE k \in DOMAIN libInput : libInput[k] = a

\* C8: sortByCreatedDate returns the artifacts in ascending order of
\* created_at, a null created_at counting as the epoch (time zero), and two
\* artifacts of equal time keep the order they had in the input.
C8_SortedOldestFirstStable ==
    libCall.op = "sort" =>
        LET sorted == libCall.result
        IN /\ \A i \in DOMAIN sorted : sorted[i] \in Range(libInput)
           /\ \A i, j \in DOMAIN sorted :
                i < j =>
                    /\ EffectiveTime(sorted[i]) <= EffectiveTime(sorted[j])
                    /\ EffectiveTime(sorted[i]) = EffectiveTime(sorted[j])
                         => InputIndex(sorted[i]) < InputIndex(sorted[j])

\* A sort of three artifacts given newest first, a null one between a date
\* before the epoch and one after it.
C8_Witness ==
    /\ libCall.op = "sort"
    /\ Len(libInput) = 3
    /\ libInput[1].created_at = <<1>>
    /\ libInput[2].created_at = <<>>
    /\ libInput[3].created_at = <<-1>>
    /\ libCall.result = <<libInput[3], libInput[2], libInput[1]>>

CountOf(id, arr) == Cardinality({ i \in DOMAIN arr : arr[i].id = id })

\* C9: sortByCreatedDate returns a permutation of its input (the same ids, as
\* many times each), sorting its result again returns the same array, and
\* the array passed to it is unchanged by the call.
C9_SortPermutationIdempotentPure ==
    libCall.op = "sort" =>
        /\ Len(libCall.result) = Len(libInput)
        /\ \A id \in Ids(libInput) \cup Ids(libCall.result) :
             CountOf(id, libCall.result) = CountOf(id, libInput)
        /\ sortByCreatedDate(libCall.result) = libCall.result
        /\ libArtifacts = libInput

\* A sort that returns another order than its input has, the input kept.
C9_Witness ==
    /\ libCall.op = "sort"
    /\ Len(libInput) = 3
    /\ libCall.result # libInput
    /\ libCall.result[1] = libInput[3]
    /\ libArtifacts = libInput

\* The inputs that are no configuration: no token, no repository or one that
\* is not owner/repo, a max_size_gb that is no number or not positive.
InvalidInputs ==
    \/ inputs.token = "" /\ inputs.envToken = ""
    \/ Len(inputs.repository) < 2
    \/ \E k \in 1..2 : k \in DOMAIN inputs.repository /\ inputs.repository[k] = ""
    \/ inputs.max_size_gb = <<>>
    \/ inputs.max_size_gb # <<>> /\ inputs.max_size_gb[1] <= 0

FetchFailed == artifactsResult # <<>> /\ ~artifactsResult[1].ok

NothingDone ==
    /\ deleteCalls = <<>>
    /\ deleted = {}
    /\ toDelete = <<>>
    /\ cleanup = <<>>
    /\ outputs = <<>>

\* C10: a run with an invalid configuration, or whose fetch of the artifacts
\* fails, ends as a failure: with an invalid configuration the fetch is never
\* called; in both cases no delete is called, no summary is built and no
\* output is set; and the fetch is called at most once in any run.
C10_ConfigOrFetchFailureIsFatal ==
    /\ fetchCalls <= 1
    /\ (pc # "start" /\ InvalidInputs) =>
          /\ pc = "done"
          /\ ~exit[1].ok
          /\ exit[1].error \in {ErrNoToken, ErrNoRepository, ErrRepositoryFormat,
                                ErrMaxSize}
          /\ config = <<>>
          /\ fetchCalls = 0
          /\ artifactsResult = <<>>
          /\ NothingDone
    /\ FetchFailed =>
          /\ pc = "done"
          /\ ~exit[1].ok
          /\ exit[1].error = artifactsResult[1].error
          /\ fetchCalls = 1
          /\ NothingDone

\* A run with a configuration whose fetch was called once and failed.
C10_Witness ==
    /\ pc = "done"
    /\ ~InvalidInputs
    /\ config # <<>>
    /\ FetchFailed
    /\ fetchCalls = 1
    /\ exit[1].error = ErrFetch

\* The selection performCleanup got from selectArtifactsToDelete, whether or
\* not it went on to keep it in toDelete.
Selected ==
    selectArtifactsToDelete(artifacts, SumSizes(artifacts), maxSizeBytesOf(Config))

Fetched == artifactsResult # <<>> /\ artifactsResult[1].ok

\* performCleanup has just called deleteArtifacts: the requests are made and
\* none has been answered (in a dry run, every deletion has returned).
AtDispatch ==
    /\ pc = "deleting"
    /\ deleted = {}
    /\ \A i \in DOMAIN results : results[i].settled = Config.dryRun

EmptySelectionOverLimit == Fetched /\ WasOverLimit /\ Selected = <<>>

\* C11: when the selector returns nothing for a total that is over the limit,
\* the run is over with the consistency error, which is none of the errors
\* of a failed deletion, a failed fetch or a refused configuration:
\* performCleanup returned that error and no summary, no deletion was
\* dispatched or requested, nothing was deleted and no output was set.  The
\* run never goes on to wait for deletions or to write a summary.
C11_EmptySelectionOverLimitIsFatal ==
    EmptySelectionOverLimit =>
        /\ pc = "done"
        /\ exit = <<Err(ErrStillOver)>>
        /\ ErrStillOver \notin {ErrDelete, ErrFetch, ErrMaxSize, ErrUnexpected}
        /\ cleanup = <<Err(ErrStillOver)>>
        /\ ~HasSummary
        /\ toDelete = <<>>
        /\ results = <<>>
        /\ deleteCalls = <<>>
        /\ deleted = {}
        /\ outputs = <<>>

\* The selector returned nothing for an empty inventory that is over a
\* negative limit, and the run has ended.
C11_Witness ==
    /\ EmptySelectionOverLimit
    /\ pc = "done"
    /\ exit = <<Err(ErrStillOver)>>

Dispatched == pc \in {"deleting", "writing", "done"} /\ toDelete # <<>>

\* C12: the deletions are all dispatched before any of them is awaited, and
\* in whatever order they complete, with whatever mix of successes and
\* failures, there is one outcome per selected artifact, the i-th for the
\* i-th artifact of the oldest-first selection, so the summary's failures
\* stand in selection order; performCleanup has no summary, and main no
\* outputs, while a dispatched deletion is unresolved.
C12_OutcomesInSelectionOrderAfterAllResolved ==
    Dispatched =>
        /\ Len(results) = Len(toDelete)
        /\ \A i \in DOMAIN toDelete : results[i].artifact = toDelete[i]
        /\ \A i, j \in DOMAIN toDelete :
             i < j => EffectiveTime(toDelete[i]) <= EffectiveTime(toDelete[j])
        /\ LET toDeleteIds == Ids(toDelete)
               newest == EffectiveTime(toDelete[Len(toDelete)])
           IN \A k \in DOMAIN artifacts :
                  \/ artifacts[k].id \in toDeleteIds
                  \/ newest <= EffectiveTime(artifacts[k])
        /\ ~Config.dryRun => Len(deleteCalls) = Len(toDelete)
        /\ (\E i \in DOMAIN results : ~results[i].settled) =>
             /\ pc = "deleting"
             /\ cleanup = <<>>
             /\ outputs = <<>>
        /\ HasSummary =>
             LET outcomes == Outcomes
             IN /\ \A i \in DOMAIN results : results[i].settled
                /\ Len(outcomes) = Len(toDelete)
                /\ \A i \in DOMAIN outcomes : outcomes[i].artifact = toDelete[i]
                /\ Summary.failures = SelectSeq(outcomes, IsFailure)

\* Three deletions were dispatched, the second succeeded and the first and
\* the third failed, and the summary lists the two failures in that order.
C12_Witness ==
    /\ pc = "done"
    /\ HasSummary
    /\ Len(toDelete) = 3
    /\ Len(deleteCalls) = 3
    /\ deleted = {toDelete[2].id}
    /\ Threw(1)
    /\ Threw(3)
    /\ Len(Summary.failures) = 2
    /\ Summary.failures[1].artifact = toDelete[1]
    /\ Summary.failures[2].artifact = toDelete[3]

\* The total of the fetched artifacts is at or under the limit.
AtOrUnderLimit == SumSizes(artifacts) * LimitDen <= Config.maxSizeGB

\* C13: the selection performCleanup dispatches is the selector's output for
\* the fetched list; delete requests are made only for artifacts of it, none
\* twice, and nothing outside it is deleted; once the deletions are
\* dispatched each selected artifact has one deletion and, unless the run is
\* a dry run, one request.  When the initial total is at or
\* under the limit, also when equal to it, no deletion is dispatched or
\* requested, and the summary has deletedCount 0, freedBytes 0, finalSizeBytes
\* the initial total, no failures, and all fetched artifacts retained.
C13_OnlySelectedDeletedNoneUnderLimit ==
    /\ ~Fetched => (deleteCalls = <<>> /\ deleted = {})
    /\ Fetched =>
         /\ AtDispatch => toDelete = Selected
         /\ \A k \in DOMAIN deleteCalls :
              /\ k \in DOMAIN toDelete
              /\ deleteCalls[k] = toDelete[k].id
         /\ \A k, l \in DOMAIN deleteCalls :
              deleteCalls[k] = deleteCalls[l] => k = l
         /\ deleted \subseteq Range(deleteCalls)
         /\ IF AtOrUnderLimit
            THEN /\ Selected = <<>>
                 /\ toDelete = <<>>
                 /\ results = <<>>
                 /\ deleteCalls = <<>>
                 /\ deleted = {}
                 /\ HasSummary
                 /\ Summary.initial = calculateStats(artifacts)
                 /\ Summary.deletedCount = 0
                 /\ Summary.freedBytes = 0
                 /\ Summary.finalSizeBytes = SumSizes(artifacts)
                 /\ Summary.failures = <<>>
                 /\ Summary.retained = artifacts
                 /\ outputs = <<setOutputs(Summary, FALSE)>>
            ELSE /\ pc \in {"deleting", "writing", "done"}
                 /\ Len(results) = Len(toDelete)
                 /\ \A i \in DOMAIN toDelete : results[i].artifact = toDelete[i]
                 /\ ~Config.dryRun =>
                      deleteCalls = [i \in DOMAIN toDelete |-> toDelete[i].id]

\* A run on three artifacts whose total is exactly the limit ended ok.
C13_Witness ==
    /\ pc = "done"
    /\ exit[1].ok
    /\ ~Config.dryRun
    /\ Len(artifacts) = 3
    /\ SumSizes(artifacts) > 0
    /\ SumSizes(artifacts) * LimitDen = Config.maxSizeGB
    /\ HasSummary
    /\ Summary.retained = artifacts
    /\ deleteCalls = <<>>

\* The artifacts the repository still stores: the fetched ones the API has not
\* deleted.
IsStored(a) == a.id \notin deleted

StoredSize == SumSizes(SelectSeq(artifacts, IsStored))

FailedIndices == { i \in DOMAIN Outcomes : ~Outcomes[i].success }

\* finalSizeBytes is the size of the retained artifacts plus that of the
\* artifacts whose deletion failed, and lies between 0 and the initial total.
FinalSizeAccounting ==
    /\ Summary.finalSizeBytes
         = SumSizes(Summary.retained) + SumSizesAt(Outcomes, FailedIndices)
    /\ 0 <= Summary.finalSizeBytes
    /\ Summary.finalSizeBytes <= Summary.initial.totalSizeBytes
    /\ Summary.initial.totalSizeBytes = SumSizes(artifacts)

\* C14 as stated: in every run that has a summary, finalSizeBytes is the size
\* of the retained artifacts plus that of the artifacts whose deletion failed,
\* lies between 0 and the initial total, and is the size the repository
\* stores after the run.
C14_FinalSizeIsStoredSize ==
    HasSummary => (FinalSizeAccounting /\ Summary.finalSizeBytes = StoredSize)

\* C14, amended: in every run that has a summary, finalSizeBytes is the size
\* of the retained artifacts plus that of the artifacts whose deletion failed
\* and lies between 0 and the initial total; it is the size the repository
\* stores after the run unless the run is a dry run, where the repository
\* still stores the initial total and finalSizeBytes is what it would store
\* without the selection.
C14_FinalSizeIsStoredSizeUnlessDryRun ==
    HasSummary =>
        /\ FinalSizeAccounting
        /\ ~Config.dryRun => Summary.finalSizeBytes = StoredSize
        /\ Config.dryRun =>
             /\ StoredSize = Summary.initial.totalSizeBytes
             /\ Summary.finalSizeBytes = StoredSize - SumSizes(toDelete)

\* A run deleted one artifact with a size, failed to delete another with a
\* size, kept a third with a size, and reports the size of the last two.
C14_Witness ==
    /\ pc = "done"
    /\ HasSummary
    /\ ~Config.dryRun
    /\ Len(toDelete) = 2
    /\ Threw(1)
    /\ deleted = {toDelete[2].id}
    /\ SumSizes(toDelete) = 2
    /\ SumSizes(Summary.retained) = 1
    /\ Summary.finalSizeBytes = 2
    /\ StoredSize = 2

\* C15: in a run of main the consistency error of performCleanup does not
\* occur.  Whenever the total of the fetched artifacts is over the limit
\* parseConfig returned, the list is not empty and performCleanup goes on to
\* the deletions with a selection of at least one artifact, which is what
\* selectArtifactsToDelete, called with that total, returned; neither
\* performCleanup nor main returns the error.
C15_ConsistencyErrorUnreachable ==
    /\ cleanup # <<Err(ErrStillOver)>>
    /\ exit # <<Err(ErrStillOver)>>
    /\ cleanup # <<>> => cleanup[1].ok
    /\ (Fetched /\ WasOverLimit) =>
         /\ artifacts # <<>>
         /\ Len(toDelete) >= 1
         /\ pc \in {"deleting", "writing", "done"}
         /\ AtDispatch => (Len(Selected) >= 1 /\ Selected = toDelete)
         /\ pc = "done" => (exit[1].ok \/ exit[1].error = ErrUnexpected)

\* The smallest total over the smallest limit: one artifact of size 1 over a
\* limit of half a byte was selected, and the run ended ok.
C15_Witness ==
    /\ pc = "done"
    /\ exit[1].ok
    /\ Config.maxSizeGB = 1
    /\ Len(artifacts) = 1
    /\ SumSizes(artifacts) = 1
    /\ WasOverLimit
    /\ toDelete = artifacts
    /\ HasSummary

=============================================================================
